---- MODULE Spec2Model ----
(***************************************************************************)
(* Trackle: the requirement-taking workflow (reqs/views/students.py,       *)
(* take_requirement), the rows it reads and writes (reqs/models.py) and    *)
(* the teacher views that change a requirement's questions and answers     *)
(* (reqs/views/teachers.py).                                               *)
(*                                                                         *)
(* Every database query of take_requirement is one step of a request, so   *)
(* that requests of the same student and teacher edits interleave between  *)
(* the queries.  Rows written inside `with transaction.atomic()` are kept  *)
(* in the request's transaction until it commits; queries of a             *)
(* transaction see the committed rows and its own (READ COMMITTED).  A     *)
(* teacher's view is one step: each makes one write, or one transaction.   *)
(* request.method and request.POST are inputs of a request; they are drawn *)
(* where the code first reads them (lines 90 and 91).                      *)
(* Scores are kept in hundredths (5000 is 50.0).                           *)
(***************************************************************************)
EXTENDS Integers, FiniteSets, Sequences, Bags, TLC

\* ---------------------------------------------------------------- bounds
MaxInitQ == 2        \* questions of requirement 1 in the initial database: 0..MaxInitQ
MaxSeqQ == 3         \* the same, for the one-request-at-a-time specification
MaxTeacherOps == 1   \* teacher writes ever made

\* program constants: question_change's inlineformset_factory(min_num, max_num)
MinNum == 2
MaxNum == 10

Students == {"s1", "s2"}
Reqs == {1, 2}
PKs == Reqs \cup {3}            \* pk of the url; 3 names no requirement
Slots == {1, 2}                 \* requests in flight at once
Texts == {1, 2}                 \* question texts, in lexicographic order
Methods == {"GET", "POST"}

\* Primary keys enough for the initial questions and the teacher's additions,
\* two answers a question.
MaxQ == IF MaxSeqQ + 1 > MaxInitQ + MaxTeacherOps THEN MaxSeqQ + 1
        ELSE MaxInitQ + MaxTeacherOps
MaxA == 2 * MaxQ
QIds == 1..MaxQ
AIds == 1..MaxA
None == 0

VARIABLES
    requirements,    \* Requirement rows: the set of their pks
    questions,       \* Question rows: pk -> [req, text]; req = None: no such row
    answers,         \* Answer rows: pk -> [question, is_correct]; question = None: no row
    nextQ, nextA,    \* the next primary keys of Question and Answer
    studentAnswers,  \* StudentAnswer rows: a bag of [student, answer]
    takenReqs,       \* TakenRequirement rows: a bag of [student, requirement, score]
    rq,              \* the requests in flight: slot -> the locals of take_requirement
    teacherOps       \* teacher writes so far

vars == <<requirements, questions, answers, nextQ, nextA, studentAnswers,
          takenReqs, rq, teacherOps>>

dbvars == <<requirements, questions, answers, nextQ, nextA>>

\* ------------------------------------------------------------ the models
NoQuestion == [req |-> None, text |-> None]
NoAnswer == [question |-> None, is_correct |-> FALSE]

\* requirement.questions
QuestionsOf(requirement) == {q \in QIds : questions[q].req = requirement}

\* question.answers
AnswersOf(question) == {a \in AIds : answers[a].question = question /\ question # None}

\* The question of a StudentAnswer row's answer, and that question's requirement.
RowQuestion(row) == answers[row.answer].question
RowRequirement(row) == questions[RowQuestion(row)].req

\* Student.get_unanswered_questions over the StudentAnswer rows `sa`: the
\* requirement's questions but those the student has an answer to.
get_unanswered_questions(sa, student, requirement) ==
    LET answered_questions ==
            {RowQuestion(row) : row \in {x \in BagToSet(sa) :
                x.student = student /\ RowRequirement(x) = requirement}}
    IN  QuestionsOf(requirement) \ answered_questions

\* .order_by('text').first(): the questions that may come first; rows of equal
\* text come in the order the database likes.
Firsts(qs) == {q \in qs : \A p \in qs : questions[q].text <= questions[p].text}

\* student.requirements.filter(pk=pk).exists()
AlreadyTaken(student, pk) ==
    \E row \in BagToSet(takenReqs) : row.student = student /\ row.requirement = pk

\* Python's round(): to the nearest integer, a tie to the even one; of n/d, d > 0.
RoundHalfEven(n, d) ==
    LET f == n \div d
        r == n - f * d
    IN  IF 2 * r < d THEN f
        ELSE IF 2 * r > d THEN f + 1
        ELSE IF f % 2 = 0 THEN f ELSE f + 1

\* 100 - round(((total_unanswered_questions - 1) / total_questions) * 100)
Progress(total_unanswered, total_questions) ==
    100 - RoundHalfEven((total_unanswered - 1) * 100, total_questions)

\* round((correct_answers / total_questions) * 100.0, 2), in hundredths
Score(correct_answers, total_questions) ==
    RoundHalfEven(correct_answers * 10000, total_questions)

\* The count without the filter on the requirement: every correct answer of
\* the student counts.
CorrectAnswersOfAnyRequirement(sa, student, requirement) ==
    LET hit == {x \in BagToSet(sa) : x.student = student /\ answers[x.answer].is_correct}
    IN  BagCardinality([x \in hit |-> sa[x]])

\* student.requirement_answers.filter(answer__question__requirement=requirement,
\*                                    answer__is_correct=True).count()
CorrectAnswers(sa, student, requirement) ==
    LET hit == {x \in BagToSet(sa) : /\ x.student = student
                                     /\ RowRequirement(x) = requirement
                                     /\ answers[x.answer].is_correct}
    IN  BagCardinality([x \in hit |-> sa[x]])

\* TakeRequirementForm(question=question, data=...).is_valid(): the answer
\* chosen is one of the answers of the question of the form.
FormValid(question, data) == data \in AnswersOf(question)

\* -------------------------------------------------------------- requests
\* The locals of take_requirement; kind is the response, once there is one.
Idle == [pc |-> "idle", pk |-> None, student |-> "s1", data |-> None,
         total_questions |-> 0, total_unanswered |-> 0, progress |-> 0,
         question |-> None, txAnswers |-> EmptyBag, txTaken |-> EmptyBag,
         last |-> FALSE, kind |-> "none", score |-> 0]

PCs == {"idle", "l81", "l84", "l86", "l88", "l92", "l96", "l97", "l100", "commit",
        "done"}

\* The pcs inside `with transaction.atomic()`.
InTransaction == {"l96", "l97", "l100", "commit"}

\* The request of slot r ends with the response `kind`; what it was showing
\* (the question, the progress) stays in its locals.
Finish(r, kind, score) ==
    rq' = [rq EXCEPT ![r].pc = "done", ![r].kind = kind, ![r].score = score,
                     ![r].txAnswers = EmptyBag, ![r].txTaken = EmptyBag]

\* The StudentAnswer rows a query of request r sees: the committed ones and
\* those of its own transaction.
Visible(r) == studentAnswers (+) rq[r].txAnswers

TypeOK ==
    /\ requirements \subseteq Reqs
    /\ nextQ \in 1..(MaxQ + 1)
    /\ nextA \in 1..(MaxA + 1)
    /\ teacherOps \in 0..MaxTeacherOps
    /\ \A r \in Slots : rq[r].pc \in PCs

\* A database to start from: requirement 1 with n1 questions, requirement 2
\* with n2; every question with a correct and a wrong answer (question k has
\* the answers 2k-1, correct, and 2k), and no row of any student.
InitQuestions(n1, n2) ==
    [q \in QIds |-> IF q <= n1 THEN [req |-> 1, text |-> IF q = 1 THEN 2 ELSE 1]
                    ELSE IF q <= n1 + n2 THEN [req |-> 2, text |-> 1]
                    ELSE NoQuestion]

InitAnswers(n1, n2) ==
    [a \in AIds |-> IF a <= 2 * (n1 + n2)
                    THEN [question |-> (a + 1) \div 2, is_correct |-> a % 2 = 1]
                    ELSE NoAnswer]

InitDB(n1, n2) ==
    /\ requirements = Reqs
    /\ questions = InitQuestions(n1, n2)
    /\ answers = InitAnswers(n1, n2)
    /\ nextQ = n1 + n2 + 1
    /\ nextA = 2 * (n1 + n2) + 1
    /\ studentAnswers = EmptyBag
    /\ takenReqs = EmptyBag
    /\ rq = [r \in Slots |-> Idle]
    /\ teacherOps = 0

\* Requirement 1 has questions; requirement 2 has none.
Init == \E n \in 1..MaxInitQ : InitDB(n, 0)

\* A request arrives and take_requirement looks the requirement up:
\* get_object_or_404(Requirement, pk=pk).  The lowest free slot takes it.
Start(r, pk, student) ==
    /\ rq[r].pc = "idle"
    /\ \A o \in Slots : o < r => rq[o].pc # "idle"
    /\ IF pk \in requirements
       THEN rq' = [rq EXCEPT ![r] = [Idle EXCEPT !.pc = "l81", !.pk = pk,
                                                 !.student = student]]
       ELSE rq' = [rq EXCEPT ![r] = [Idle EXCEPT !.pc = "done", !.pk = pk,
                                                 !.student = student, !.kind = "404"]]
    /\ UNCHANGED <<dbvars, studentAnswers, takenReqs, teacherOps>>

\* The view without its guard: the request goes on whatever rows there are.
CheckTakenSkipped(r) ==
    /\ rq[r].pc = "l81"
    /\ rq' = [rq EXCEPT ![r].pc = "l84"]
    /\ UNCHANGED <<dbvars, studentAnswers, takenReqs, teacherOps>>

\* if student.requirements.filter(pk=pk).exists(): render taken_requirement.html
CheckTaken(r) ==
    /\ rq[r].pc = "l81"
    /\ IF AlreadyTaken(rq[r].student, rq[r].pk)
       THEN Finish(r, "taken", 0)
       ELSE rq' = [rq EXCEPT ![r].pc = "l84"]
    /\ UNCHANGED <<dbvars, studentAnswers, takenReqs, teacherOps>>

\* total_questions = requirement.questions.count()
CountQuestions(r) ==
    /\ rq[r].pc = "l84"
    /\ rq' = [rq EXCEPT ![r].pc = "l86",
                        ![r].total_questions = Cardinality(QuestionsOf(rq[r].pk))]
    /\ UNCHANGED <<dbvars, studentAnswers, takenReqs, teacherOps>>

\* total_unanswered_questions = unanswered_questions.count(), then the
\* progress: a division by total_questions.
CountUnanswered(r) ==
    /\ rq[r].pc = "l86"
    /\ LET u == Cardinality(get_unanswered_questions(studentAnswers, rq[r].student, rq[r].pk))
       IN  IF rq[r].total_questions = 0
           THEN Finish(r, "ZeroDivisionError", 0)
           ELSE rq' = [rq EXCEPT ![r].pc = "l88", ![r].total_unanswered = u,
                                 ![r].progress = Progress(u, rq[r].total_questions)]
    /\ UNCHANGED <<dbvars, studentAnswers, takenReqs, teacherOps>>

\* question = unanswered_questions.first(); then request.method: a GET
\* renders the form of the question.
FirstQuestion(r, method) ==
    /\ rq[r].pc = "l88"
    /\ LET qs == get_unanswered_questions(studentAnswers, rq[r].student, rq[r].pk)
       IN  \E q \in (IF qs = {} THEN {None} ELSE Firsts(qs)) :
              IF method = "POST"
              THEN rq' = [rq EXCEPT ![r].pc = "l92", ![r].question = q]
              ELSE rq' = [rq EXCEPT ![r].pc = "done", ![r].question = q,
                                    ![r].kind = "form"]
    /\ UNCHANGED <<dbvars, studentAnswers, takenReqs, teacherOps>>

\* The view without `if form.is_valid()`: whatever was posted is saved.
ValidateSkipped(r, data) ==
    /\ rq[r].pc = "l92"
    /\ rq' = [rq EXCEPT ![r].pc = "l96", ![r].data = data]
    /\ UNCHANGED <<dbvars, studentAnswers, takenReqs, teacherOps>>

\* form = TakeRequirementForm(question=question, data=request.POST);
\* if form.is_valid(): ... else the form is rendered again.
Validate(r, data) ==
    /\ rq[r].pc = "l92"
    /\ IF FormValid(rq[r].question, data)
       THEN rq' = [rq EXCEPT ![r].pc = "l96", ![r].data = data]
       ELSE rq' = [rq EXCEPT ![r].pc = "done", ![r].data = data, ![r].kind = "form"]
    /\ UNCHANGED <<dbvars, studentAnswers, takenReqs, teacherOps>>

\* student_answer.save() without the atomic block around it: the row is
\* committed at once.
SaveAnswerAutocommit(r) ==
    /\ rq[r].pc = "l96"
    /\ IF rq[r].data \notin AIds \/ answers[rq[r].data].question = None
       THEN /\ Finish(r, "IntegrityError", 0)
            /\ UNCHANGED studentAnswers
       ELSE /\ rq' = [rq EXCEPT ![r].pc = "l97"]
            /\ studentAnswers' = studentAnswers (+)
                   SetToBag({[student |-> rq[r].student, answer |-> rq[r].data]})
    /\ UNCHANGED <<dbvars, takenReqs, teacherOps>>

\* with transaction.atomic(): student_answer.save().  The row waits in the
\* transaction; an answer deleted since the form was validated fails the
\* foreign key and the transaction is rolled back.
SaveAnswer(r) ==
    /\ rq[r].pc = "l96"
    /\ IF rq[r].data \notin AIds \/ answers[rq[r].data].question = None
       THEN Finish(r, "IntegrityError", 0)
       ELSE rq' = [rq EXCEPT ![r].pc = "l97",
                     ![r].txAnswers = SetToBag({[student |-> rq[r].student,
                                                 answer |-> rq[r].data]})]
    /\ UNCHANGED <<dbvars, studentAnswers, takenReqs, teacherOps>>

\* if student.get_unanswered_questions(requirement).exists(): redirect
CheckRemaining(r) ==
    /\ rq[r].pc = "l97"
    /\ LET qs == get_unanswered_questions(Visible(r), rq[r].student, rq[r].pk)
       IN  rq' = [rq EXCEPT ![r].pc = IF qs # {} THEN "commit" ELSE "l100",
                            ![r].last = (qs = {})]
    /\ UNCHANGED <<dbvars, studentAnswers, takenReqs, teacherOps>>

\* correct_answers = ...count(); score = round(...);
\* TakenRequirement.objects.create(student, requirement, score)
CreateTaken(r) ==
    /\ rq[r].pc = "l100"
    /\ LET correct_answers == CorrectAnswers(Visible(r), rq[r].student, rq[r].pk)
           score == Score(correct_answers, rq[r].total_questions)
       IN  rq' = [rq EXCEPT ![r].pc = "commit", ![r].score = score,
                     ![r].txTaken = SetToBag({[student |-> rq[r].student,
                                               requirement |-> rq[r].pk,
                                               score |-> score]})]
    /\ UNCHANGED <<dbvars, studentAnswers, takenReqs, teacherOps>>

\* The database refuses the insert of the TakenRequirement row: the exception
\* leaves the atomic block, which rolls the transaction back.
FailTaken(r) ==
    /\ rq[r].pc = "l100"
    /\ Finish(r, "DatabaseError", 0)
    /\ UNCHANGED <<dbvars, studentAnswers, takenReqs, teacherOps>>

\* The atomic block is left by a return: the transaction commits, and the
\* response is a redirect (to the list, with the score's message, after the
\* last question; to the same view otherwise).
Commit(r) ==
    /\ rq[r].pc = "commit"
    /\ studentAnswers' = studentAnswers (+) rq[r].txAnswers
    /\ takenReqs' = takenReqs (+) rq[r].txTaken
    /\ IF rq[r].last
       THEN Finish(r, IF rq[r].score < 5000 THEN "redirect_list_warning"
                      ELSE "redirect_list_success", rq[r].score)
       ELSE Finish(r, "redirect_take", 0)
    /\ UNCHANGED <<dbvars, teacherOps>>

\* The response is sent and the request is over.
Return(r) ==
    /\ rq[r].pc = "done"
    /\ rq' = [rq EXCEPT ![r] = Idle]
    /\ UNCHANGED <<dbvars, studentAnswers, takenReqs, teacherOps>>

\* ------------------------------------------------------------- teachers
\* The bag b without the rows outside the set `rows`.
Restrict(b, rows) == [x \in rows |-> b[x]]

\* An open transaction holds an inserted row that refers to answer a (or to
\* requirement pk): the row's foreign key locks the row it refers to until
\* the transaction ends.
AnswerLocked(a) ==
    \E r \in Slots : \E row \in BagToSet(rq[r].txAnswers) : row.answer = a

RequirementLocked(pk) ==
    \E r \in Slots : \E row \in BagToSet(rq[r].txTaken) : row.requirement = pk

\* on_delete=CASCADE: the answers in `gone` go, and the StudentAnswer rows
\* that chose them.
CascadeAnswers(gone) ==
    studentAnswers' = Restrict(studentAnswers,
        {row \in BagToSet(studentAnswers) : row.answer \notin gone})

\* question_add, a valid POST: a new question of the requirement, no answers yet.
question_add(pk, text) ==
    /\ teacherOps < MaxTeacherOps
    /\ pk \in requirements
    /\ nextQ <= MaxQ
    /\ questions' = [questions EXCEPT ![nextQ] = [req |-> pk, text |-> text]]
    /\ nextQ' = nextQ + 1
    /\ teacherOps' = teacherOps + 1
    /\ UNCHANGED <<requirements, answers, nextA, studentAnswers, takenReqs, rq>>

\* QuestionDeleteView: the question goes, with its answers and the
\* StudentAnswer rows on them.
QuestionDelete(q) ==
    /\ teacherOps < MaxTeacherOps
    /\ questions[q].req \in requirements
    /\ \A a \in AnswersOf(q) : ~AnswerLocked(a)
    /\ questions' = [questions EXCEPT ![q] = NoQuestion]
    /\ answers' = [a \in AIds |-> IF a \in AnswersOf(q) THEN NoAnswer ELSE answers[a]]
    /\ CascadeAnswers(AnswersOf(q))
    /\ teacherOps' = teacherOps + 1
    /\ UNCHANGED <<requirements, nextQ, nextA, takenReqs, rq>>

\* RequirementDeleteView: the requirement goes, with its questions, their
\* answers, the StudentAnswer rows on them and its TakenRequirement rows.
RequirementDelete(pk) ==
    /\ teacherOps < MaxTeacherOps
    /\ pk \in requirements
    /\ ~RequirementLocked(pk)
    /\ LET qs == QuestionsOf(pk)
           gone == UNION {AnswersOf(q) : q \in qs}
       IN  /\ \A a \in gone : ~AnswerLocked(a)
           /\ requirements' = requirements \ {pk}
           /\ questions' = [q \in QIds |-> IF q \in qs THEN NoQuestion ELSE questions[q]]
           /\ answers' = [a \in AIds |-> IF a \in gone THEN NoAnswer ELSE answers[a]]
           /\ CascadeAnswers(gone)
    /\ takenReqs' = Restrict(takenReqs,
          {row \in BagToSet(takenReqs) : row.requirement # pk})
    /\ teacherOps' = teacherOps + 1
    /\ UNCHANGED <<nextQ, nextA, rq>>

\* question_change, a valid POST, in one transaction: form.save() sets the
\* text; formset.save() deletes the answers marked so (`del`), sets
\* is_correct of the others (`flags`) and adds the new ones (`new`, their
\* is_correct flags).  The formset is valid with MinNum..MaxNum answers left.
question_change(q, text, del, flags, new) ==
    /\ teacherOps < MaxTeacherOps
    /\ questions[q].req \in requirements
    /\ \A a \in del : ~AnswerLocked(a)
    /\ LET kept == AnswersOf(q) \ del
           n == Cardinality(kept) + Len(new)
       IN  /\ n >= MinNum /\ n <= MaxNum
           /\ nextA + Len(new) <= MaxA + 1
           /\ questions' = [questions EXCEPT ![q].text = text]
           /\ answers' = [a \in AIds |->
                 IF a \in del THEN NoAnswer
                 ELSE IF a \in kept THEN [answers[a] EXCEPT !.is_correct = flags[a]]
                 ELSE IF a >= nextA /\ a < nextA + Len(new)
                      THEN [question |-> q, is_correct |-> new[a - nextA + 1]]
                 ELSE answers[a]]
           /\ nextA' = nextA + Len(new)
    /\ CascadeAnswers(del)
    /\ teacherOps' = teacherOps + 1
    /\ UNCHANGED <<requirements, nextQ, takenReqs, rq>>

\* The answer a form can post: an answer's pk, or none chosen.
Posted == AIds \cup {None}

\* The posts of question_change tried on question q: the text alone; one
\* answer's is_correct turned; one answer replaced by a new wrong one; the
\* first two answers of a question that has none.
Flags(q) == [a \in AnswersOf(q) |-> answers[a].is_correct]

Changes(q) ==
    {<<t, {}, Flags(q), <<>> >> : t \in Texts \ {questions[q].text}}
    \cup {<<questions[q].text, {}, [Flags(q) EXCEPT ![a] = ~@], <<>> >> : a \in AnswersOf(q)}
    \cup {<<questions[q].text, {a}, [b \in AnswersOf(q) \ {a} |-> Flags(q)[b]], <<FALSE>> >> :
             a \in AnswersOf(q)}
    \cup {<<questions[q].text, {}, Flags(q), <<TRUE, FALSE>> >> : x \in {y \in {q} : AnswersOf(q) = {}}}

StudentStep(r, students) ==
    \/ \E pk \in PKs, s \in students : Start(r, pk, s)
    \/ CheckTaken(r)
    \/ CountQuestions(r)
    \/ CountUnanswered(r)
    \/ \E m \in Methods : FirstQuestion(r, m)
    \/ \E d \in Posted : Validate(r, d)
    \/ SaveAnswer(r)
    \/ CheckRemaining(r)
    \/ CreateTaken(r)
    \/ FailTaken(r)
    \/ Commit(r)
    \/ Return(r)

\* The teacher's requirements and questions (get_queryset, get_object_or_404
\* with owner=request.user), while the teacher may still write.
Owned == IF teacherOps < MaxTeacherOps THEN requirements ELSE {}

OwnedQuestions == {q \in QIds : questions[q].req \in Owned}

TeacherStep ==
    \/ \E pk \in Owned, text \in Texts : question_add(pk, text)
    \/ \E q \in OwnedQuestions : QuestionDelete(q)
    \/ \E pk \in Owned : RequirementDelete(pk)
    \/ \E q \in OwnedQuestions : \E c \in Changes(q) :
          question_change(q, c[1], c[2], c[3], c[4])

\* Two requests of one student at a time, and the teacher.
Next == (\E r \in Slots : StudentStep(r, {"s1"})) \/ TeacherStep

Spec == Init /\ [][Next]_vars

\* The requests of one student alone, two at a time.
NextRace == \E r \in Slots : StudentStep(r, {"s1"})

SpecRace == Init /\ [][NextRace]_vars

\* One request at a time, and the teacher.
NextTeacher == StudentStep(1, {"s1"}) \/ TeacherStep

SpecTeacher == Init /\ [][NextTeacher]_vars

\* One request at a time and no teacher, over a database where both
\* requirements have questions and student s2 has finished both, every
\* answer correct.
InitSeq ==
    \E n \in 0..MaxSeqQ :
        /\ requirements = Reqs
        /\ questions = InitQuestions(n, 1)
        /\ answers = InitAnswers(n, 1)
        /\ nextQ = n + 2
        /\ nextA = 2 * (n + 1) + 1
        /\ studentAnswers = SetToBag({[student |-> "s2", answer |-> 2 * q - 1] :
                                         q \in 1..(n + 1)})
        /\ takenReqs = SetToBag({[student |-> "s2", requirement |-> pk, score |-> 10000] :
                                    pk \in {x \in Reqs : x = 2 \/ n > 0}})
        /\ rq = [r \in Slots |-> Idle]
        /\ teacherOps = 0

NextSeq == StudentStep(1, Students)

SpecSeq == InitSeq /\ [][NextSeq]_vars

\* ------------------------------------------------------------ the claims
\* The student's StudentAnswer rows on questions of the requirement, and the
\* TakenRequirement rows of the pair, counted in the committed database.
Submissions(s, pk) ==
    BagCardinality(Restrict(studentAnswers,
        {row \in BagToSet(studentAnswers) : row.student = s /\ RowRequirement(row) = pk}))

TakenRows(s, pk) ==
    Restrict(takenReqs,
        {row \in BagToSet(takenReqs) : row.student = s /\ row.requirement = pk})

\* The questions of the requirement the student has a correct answer to.
CorrectlyAnswered(s, pk) ==
    {q \in QuestionsOf(pk) : \E row \in BagToSet(studentAnswers) :
        /\ row.student = s
        /\ RowQuestion(row) = q
        /\ answers[row.answer].is_correct}

\* x is 100 * c / n rounded to two decimals, in hundredths.
IsPercentage(x, c, n) ==
    LET d == x * n - 10000 * c IN 2 * d <= n /\ 2 * d >= 0 - n

\* C1: with one request at a time and no teacher edit, a student who has
\* submitted fewer valid answers than the requirement has questions has no
\* TakenRequirement row for it, and one who has answered all N >= 1 questions
\* has exactly one, whose score is round(100 * correct / N, 2) with correct
\* counting the student's correct answers to questions of that requirement.
C1_ScoreOnCompletion ==
    \A s \in Students, pk \in Reqs :
        LET N == Cardinality(QuestionsOf(pk))
            submitted == Submissions(s, pk)
            taken == TakenRows(s, pk)
        IN  N >= 1 =>
              /\ submitted <= N
              /\ submitted < N => taken = EmptyBag
              /\ submitted = N =>
                    /\ BagCardinality(taken) = 1
                    /\ \A row \in BagToSet(taken) :
                          IsPercentage(row.score, Cardinality(CorrectlyAnswered(s, pk)), N)

\* Student s1 has finished a requirement of three questions with two correct
\* answers (66.67) after answering the other requirement's question
\* correctly, beside the rows of student s2.
C1_Witness ==
    /\ Cardinality(QuestionsOf(1)) = 3
    /\ [student |-> "s1", requirement |-> 1, score |-> 6667] \in BagToSet(takenReqs)
    /\ [student |-> "s1", requirement |-> 2, score |-> 10000] \in BagToSet(takenReqs)
    /\ [student |-> "s2", requirement |-> 1, score |-> 10000] \in BagToSet(takenReqs)

\* C2: a student has at most one TakenRequirement row per requirement.
C2_AtMostOneTaken ==
    \A s \in Students, pk \in Reqs : BagCardinality(TakenRows(s, pk)) <= 1

\* C10: a student has at most one StudentAnswer row per question.
C10_AtMostOneAnswerPerQuestion ==
    \A s \in Students, q \in QIds :
        BagCardinality(Restrict(studentAnswers,
            {row \in BagToSet(studentAnswers) :
                row.student = s /\ RowQuestion(row) = q})) <= 1

\* C4: the score of every TakenRequirement row is between 0 and 100.
C4_ScoreInRange ==
    \A row \in BagToSet(takenReqs) : row.score >= 0 /\ row.score <= 10000

\* C5: for every student and requirement, get_unanswered_questions is empty
\* if and only if the pair has a TakenRequirement row.
C5_EmptyIffTaken ==
    \A s \in Students, pk \in requirements :
        (get_unanswered_questions(studentAnswers, s, pk) = {}) <=> AlreadyTaken(s, pk)

\* C6: the progress a request has computed is within 0..100.
C6_ProgressInRange ==
    \A r \in Slots : rq[r].progress >= 0 /\ rq[r].progress <= 100

\* C9: no request for an existing requirement that has no question, and no
\* TakenRequirement row of the student, ends in a division by zero.
C9_NoZeroDivision ==
    \A r \in Slots :
        ~ /\ rq[r].kind = "ZeroDivisionError"
          /\ rq[r].pk \in requirements
          /\ QuestionsOf(rq[r].pk) = {}
          /\ ~AlreadyTaken(rq[r].student, rq[r].pk)

\* C3: a request that reaches the guard of take_requirement while the pair
\* has a TakenRequirement row ends there with the "already taken" response
\* and changes no StudentAnswer and no TakenRequirement row; and a pair that
\* has a TakenRequirement row keeps it as long as the requirement exists: no
\* step of the workflow leaves the completed state.
C3_AlreadyTakenIsFinal ==
    [][/\ \A r \in Slots :
            (/\ rq[r].pc = "l81"
             /\ rq'[r] # rq[r]
             /\ \E row \in BagToSet(takenReqs) :
                   row.student = rq[r].student /\ row.requirement = rq[r].pk)
            => /\ rq'[r].pc = "done"
               /\ rq'[r].kind = "taken"
               /\ studentAnswers' = studentAnswers
               /\ takenReqs' = takenReqs
       /\ \A s \in Students, pk \in Reqs :
            (TakenRows(s, pk) # EmptyBag /\ pk \in requirements')
            => \A row \in BagToSet(TakenRows(s, pk)) :
                  row \in BagToSet(takenReqs') /\ takenReqs'[row] >= takenReqs[row]
      ]_vars

\* The student has finished the requirement and a later request, started
\* while another one was still in flight, got the "already taken" page.
C3_Witness ==
    /\ TakenRows("s1", 1) # EmptyBag
    /\ rq[2].pc = "done" /\ rq[2].kind = "taken" /\ rq[2].pk = 1
    /\ rq[1].pc = "done" /\ rq[1].kind = "taken"

\* C7: a POST whose answer is not one of the answers of the question the
\* request presents (or names none) ends with the form of the same question
\* and changes no StudentAnswer and no TakenRequirement row; and the row a
\* request writes is an answer to the question it presents.
C7_InvalidSubmissionChangesNothing ==
    [][\A r \in Slots :
          /\ (/\ rq[r].pc = "l92"
              /\ rq'[r] # rq[r]
              /\ ~ \E a \in AIds : a = rq'[r].data /\ answers[a].question = rq[r].question)
             => /\ rq'[r].pc = "done"
                /\ rq'[r].kind = "form"
                /\ rq'[r].question = rq[r].question
                /\ rq'[r].txAnswers = EmptyBag
                /\ studentAnswers' = studentAnswers
                /\ takenReqs' = takenReqs
          /\ \A row \in BagToSet(rq'[r].txAnswers) :
                /\ rq'[r].question # None
                /\ answers'[row.answer].question = rq'[r].question
          /\ (rq[r].pc = "commit" /\ rq'[r] # rq[r])
             => studentAnswers' = studentAnswers (+) rq[r].txAnswers
      ]_vars

\* A POST that chose an answer of another question got the form of its own
\* question again, after the teacher's edit.
C7_Witness ==
    \E r \in Slots :
        /\ rq[r].pc = "done" /\ rq[r].kind = "form"
        /\ rq[r].question # None
        /\ rq[r].data \in AIds
        /\ answers[rq[r].data].question \notin {None, rq[r].question}
        /\ teacherOps > 0

\* C8: the rows of a submission are committed together or not at all: a
\* request changes no committed row before its transaction commits; the
\* commit of a request that saw no question left adds its StudentAnswer row
\* and one TakenRequirement row of the pair in the same step; the commit of a
\* request that saw questions left adds its StudentAnswer row alone; and a
\* request that fails inside the block leaves both tables as they were.
C8_SubmissionIsAtomic ==
    [][\A r \in Slots :
          (rq'[r] # rq[r] /\ rq[r].pc \in InTransaction)
          => IF rq[r].pc = "commit"
             THEN /\ Submissions(rq[r].student, rq[r].pk)' =
                        Submissions(rq[r].student, rq[r].pk) + 1
                  /\ BagCardinality(TakenRows(rq[r].student, rq[r].pk))' =
                        BagCardinality(TakenRows(rq[r].student, rq[r].pk))
                        + (IF rq[r].last THEN 1 ELSE 0)
                  /\ rq[r].last => AlreadyTaken(rq[r].student, rq[r].pk)'
             ELSE /\ studentAnswers' = studentAnswers
                  /\ takenReqs' = takenReqs
                  /\ rq[r].pc = "l100" => rq[r].last
      ]_vars

\* The insert of the TakenRequirement row failed after the last question was
\* answered: the answer is not recorded either and the question is still
\* unanswered.
C8_Witness ==
    \E r \in Slots :
        /\ rq[r].pc = "done" /\ rq[r].kind = "DatabaseError"
        /\ rq[r].question \in
              get_unanswered_questions(studentAnswers, rq[r].student, rq[r].pk)
        /\ ~AlreadyTaken(rq[r].student, rq[r].pk)
        /\ Submissions(rq[r].student, rq[r].pk) = 1

====
